---- MODULE Spec2Model ----
(***************************************************************************)
(* Model of the WhatsApp contact adder, src/src/main.rs.                   *)
(*                                                                         *)
(* The program has two execution contexts: the warp server, which runs     *)
(* handle_webhook for every POST /webhook request (lines 178-186), and one *)
(* spawned task that loops on rx.recv() and runs handle_webhook for every  *)
(* item it receives, then sleeps one second (lines 168-177).  The sender   *)
(* half tx of the channel (line 163) is never used by main.                *)
(*                                                                         *)
(* Strings are sequences of one-character strings over Alphabet.  An       *)
(* Option<T> is a sequence of length at most one: <<>> is None, <<v>> is   *)
(* Some(v).  Time is counted in whole seconds by the Tick action.          *)
(***************************************************************************)
EXTENDS Integers, Sequences, FiniteSets, TLC

VARIABLES
    config,     \* some_module::Config as loaded by load_config (line 153)
    reqs,       \* the POST /webhook requests being served by warp
    queue,      \* contents of the mpsc channel (tx, rx) of line 163
    disp,       \* the spawned task of lines 168-177
    sends,      \* history: every client.send_text call, in call order
    sinceSend,  \* seconds since the most recent send_text call, capped at Delay
    enqueued,   \* history: every item sent on tx, in order
    processed,  \* history: every item rx.recv() returned, in order
    handled,    \* history: every return of handle_webhook to the task
    probe,      \* a single evaluation of the trigger test (lines 127-130)
    card,       \* a contact and what generate_vcard returned for it
    tx          \* the sender half of the channel (line 163)

vars == <<config, reqs, queue, disp, sends, sinceSend, enqueued, processed,
          handled, probe, card, tx>>

(***************************************************************************)
(* Bounds of the model.                                                    *)
(***************************************************************************)
MaxReq == 2
MaxEnq == 3
MaxTextLen == 3
MaxTrigLen == 2
MaxFieldLen == 2
MaxSend == 102

(***************************************************************************)
(* Program constants.                                                      *)
(***************************************************************************)
Delay == 1
ChannelCapacityOffByOne == 100 + 1
ChannelCapacity == 100
StatusOK == 200
StatusBadRequest == 400
StatusInternalServerError == 500

(***************************************************************************)
(* Strings and options.                                                    *)
(***************************************************************************)
Alphabet == {"a", "A", "b", "B"}

RECURSIVE StringsUpTo(_)
StringsUpTo(n) ==
    IF n = 0 THEN {<<>>}
    ELSE LET shorter == StringsUpTo(n - 1)
         IN  shorter \cup {Append(s, c) : s \in {t \in shorter : Len(t) = n - 1},
                                           c \in Alphabet}

\* Characters of the fields of a VCard (lines 33-37), among them the two the
\* card format gives a meaning to.
CardAlphabet == {"D", ";", "\n"}

RECURSIVE FieldsUpTo(_)
FieldsUpTo(n) ==
    IF n = 0 THEN {<<>>}
    ELSE LET shorter == FieldsUpTo(n - 1)
         IN  shorter \cup {Append(s, c) : s \in {t \in shorter : Len(t) = n - 1},
                                           c \in CardAlphabet}

None == <<>>
Some(v) == <<v>>

unwrap_or_placeholder(opt) == IF opt = None THEN <<"b">> ELSE opt[1]

\* Option::unwrap_or_default on Option<String>: None becomes the empty string.
unwrap_or_default(opt) == IF opt = None THEN <<>> ELSE opt[1]

\* char lowercase mapping used by str::to_lowercase, on Alphabet.
to_lowercase_char(c) ==
    CASE c = "A" -> "a"
      [] c = "B" -> "b"
      [] OTHER   -> c

to_lowercase_noop(s) == s

\* str::to_lowercase: maps every character, keeps length and order.
to_lowercase(s) == [i \in 1..Len(s) |-> to_lowercase_char(s[i])]

\* str::starts_with
starts_with(h, n) == Len(n) <= Len(h) /\ SubSeq(h, 1, Len(n)) = n

\* str::contains with a &String pattern: scan the haystack left to right for
\* a position at which the needle starts.
RECURSIVE contains(_, _)
contains(h, n) ==
    IF starts_with(h, n) THEN TRUE
    ELSE IF h = <<>> THEN FALSE
    ELSE contains(Tail(h), n)

TriggerAlways(message, cfg) == TRUE

\* handle_webhook lines 127-130: the condition of the if.
TriggerDetected(message, cfg) ==
    LET trigger_word == to_lowercase(cfg.trigger_word)
        message_text == to_lowercase(unwrap_or_default(message.text))
    IN  contains(message_text, trigger_word)


(***************************************************************************)
(* Card generation and the outbound request.                               *)
(***************************************************************************)
\* handle_webhook lines 134-138: the example contact.
ExampleContact ==
    [first_name |-> <<"John">>, last_name |-> <<"Doe">>,
     phone_number |-> <<"1234567890">>]

generate_vcard_first_last(contact) ==
    <<"BEGIN:VCARD", "\n", "VERSION:3.0", "\n", "N:">>
        \o contact.first_name \o <<";">> \o contact.last_name
        \o <<"\n", "TEL;TYPE=CELL:">> \o contact.phone_number
        \o <<"\n", "END:VCARD">>

\* generate_vcard: the format! of lines 57-60.  A string is the sequence of
\* the pieces it is made of; each {} is replaced by the field as it is.
generate_vcard(contact) ==
    <<"BEGIN:VCARD", "\n", "VERSION:3.0", "\n", "N:">>
        \o contact.last_name \o <<";">> \o contact.first_name
        \o <<"\n", "TEL;TYPE=CELL:">> \o contact.phone_number
        \o <<"\n", "END:VCARD">>

\* send_vcard lines 88-102: the SendTextRequestBody handed to client.send_text.
SendTextRequestBody(cfg, vcard, recipient) ==
    [from |-> cfg.whatsapp_phone_number_id,
     to   |-> recipient,
     text |-> <<"Here is the contact vCard:\n">> \o vcard]

SendCallToSender(by, id) ==
    [by      |-> by,
     id      |-> id,
     request |-> SendTextRequestBody(config, generate_vcard(ExampleContact),
                                     IF by = "http" THEN reqs[id].msg.from
                                                    ELSE disp.msg.from),
     gap     |-> IF sends = <<>> THEN -1 ELSE sinceSend]

\* One client.send_text call (line 105) as recorded in the history: who made
\* it, for which request or queue item, with what request body, and how many
\* seconds after the previous call (-1 for the first call).
SendCall(by, id) ==
    [by      |-> by,
     id      |-> id,
     request |-> SendTextRequestBody(config, generate_vcard(ExampleContact),
                                     config.recipient_phone_number),
     gap     |-> IF sends = <<>> THEN -1 ELSE sinceSend]

\* handle_webhook lines 141-146: the status of the reply it returns.
ReplyStatus(sendOk) ==
    IF sendOk THEN StatusOK ELSE StatusInternalServerError

HandleWebhookReturnPropagate(sendOk) ==
    [ok |-> sendOk, status |-> ReplyStatus(sendOk)]

\* handle_webhook lines 141-146: the Result it returns, Ok(reply) both when
\* the send failed (line 143) and otherwise (line 146).
HandleWebhookReturn(sendOk) ==
    [ok |-> TRUE, status |-> ReplyStatus(sendOk)]

(***************************************************************************)
(* Inputs.                                                                 *)
(***************************************************************************)
\* Values of TRIGGER_WORD, and the rest of the environment, read by load_config.
TriggerWords == {<<"a", "B">>, <<"b">>, <<>>}

Recipients == {"r1", "r2"}

Configs ==
    {[trigger_word |-> t,
      recipient_phone_number |-> p,
      whatsapp_phone_number_id |-> "w1"] :
          t \in TriggerWords, p \in Recipients}

\* JSON bodies posted to /webhook, as the fields serde looks for: "from" may be
\* missing, "text" may be missing or null.
Texts == {None, Some(<<"b", "A", "B">>), Some(<<"B", "a">>), Some(<<"a">>)}

Bodies == {[from |-> f, text |-> t] : f \in {None, Some("u1")}, t \in Texts}

\* WhatsAppMessage values (lines 26-29).
Messages == {[from |-> "u1", text |-> t] : t \in Texts}

NoMessage == [from |-> "", text |-> None]

IdleRequest == [pc |-> "idle", msg |-> NoMessage, status |-> 0, cards |-> 0]

IdleTask ==
    [pc |-> "recv", id |-> 0, msg |-> NoMessage, status |-> 0, cards |-> 0,
     sleepLeft |-> 0, errors |-> 0, sinceRecv |-> 0, recvGap |-> -1]

NoProbe == [state |-> "none", message |-> NoMessage, result |-> FALSE]

NoCard == [state |-> "none", contact |-> ExampleContact, output |-> <<>>,
           again |-> <<>>]

\* tx as main creates it (line 163): not dropped, no send waiting on it.
OpenSender == [closed |-> FALSE, blocked |-> <<>>]

(***************************************************************************)
(* The warp route of lines 178-183: POST /webhook, body::json, and_then     *)
(* handle_webhook.                                                         *)
(***************************************************************************)
HttpReceiveLenient(r, body) ==
    /\ reqs[r].pc = "idle"
    /\ reqs' = [reqs EXCEPT ![r] =
                  [@ EXCEPT !.pc = "handle",
                            !.msg = [from |-> unwrap_or_default(body.from),
                                     text |-> body.text]]]
    /\ UNCHANGED <<config, queue, disp, sends, sinceSend, enqueued, processed,
                   handled, probe, card, tx>>

\* warp::body::json() deserialises the body into WhatsAppMessage; a body
\* without "from" is rejected and answered 400, otherwise handle_webhook is
\* entered with the message.
HttpReceive(r, body) ==
    /\ reqs[r].pc = "idle"
    /\ reqs' = [reqs EXCEPT ![r] =
                  IF body.from = None
                  THEN [@ EXCEPT !.pc = "done", !.status = StatusBadRequest]
                  ELSE [@ EXCEPT !.pc = "handle",
                                 !.msg = [from |-> body.from[1],
                                          text |-> body.text]]]
    /\ UNCHANGED <<config, queue, disp, sends, sinceSend, enqueued, processed,
                   handled, probe, card, tx>>

\* handle_webhook lines 125-141, run by the route: test the trigger; on a
\* match build the card and call send_vcard, which awaits client.send_text;
\* otherwise reply 200 (line 146).
HttpHandle(r) ==
    /\ reqs[r].pc = "handle"
    /\ IF TriggerDetected(reqs[r].msg, config)
       THEN /\ reqs' = [reqs EXCEPT ![r].pc = "sending", ![r].cards = @ + 1]
            /\ sends' = Append(sends, SendCall("http", r))
            /\ sinceSend' = 0
       ELSE /\ reqs' = [reqs EXCEPT ![r].pc = "done", ![r].status = StatusOK]
            /\ UNCHANGED <<sends, sinceSend>>
    /\ UNCHANGED <<config, queue, disp, enqueued, processed, handled, probe, card, tx>>

HttpSendDoneRetry(r, sendOk) ==
    /\ reqs[r].pc = "sending"
    /\ IF sendOk \/ Cardinality({i \in 1..Len(sends) : sends[i].id = r}) > 1
       THEN /\ reqs' = [reqs EXCEPT ![r].pc = "done",
                                    ![r].status = ReplyStatus(sendOk)]
            /\ UNCHANGED <<sends, sinceSend>>
       ELSE /\ sends' = Append(sends, SendCall("http", r))
            /\ sinceSend' = 0
            /\ UNCHANGED reqs
    /\ UNCHANGED <<config, queue, disp, enqueued, processed, handled, probe, card, tx>>

\* client.send_text returns (lines 104-116) and handle_webhook replies
\* (lines 141-146); warp sends that reply as the HTTP response.
HttpSendDone(r, sendOk) ==
    /\ reqs[r].pc = "sending"
    /\ reqs' = [reqs EXCEPT ![r].pc = "done", ![r].status = ReplyStatus(sendOk)]
    /\ UNCHANGED <<config, queue, disp, sends, sinceSend, enqueued, processed,
                   handled, probe, card, tx>>

(***************************************************************************)
(* The spawned task of lines 168-177.                                      *)
(***************************************************************************)
DispRecvLast ==
    /\ disp.pc = "recv"
    /\ queue # <<>>
    /\ disp' = [disp EXCEPT !.pc = "handle", !.id = queue[Len(queue)].id,
                            !.msg = queue[Len(queue)].msg, !.cards = 0,
                            !.status = 0]
    /\ queue' = SubSeq(queue, 1, Len(queue) - 1)
    /\ processed' = Append(processed, queue[Len(queue)])
    /\ UNCHANGED <<config, reqs, sends, sinceSend, enqueued, handled, probe, card, tx>>

DispRecvPeek ==
    /\ disp.pc = "recv"
    /\ queue # <<>>
    /\ Len(processed) < MaxEnq + 1
    /\ disp' = [disp EXCEPT !.pc = "handle", !.id = Head(queue).id,
                            !.msg = Head(queue).msg, !.cards = 0, !.status = 0]
    /\ processed' = Append(processed, Head(queue))
    /\ UNCHANGED <<config, reqs, queue, sends, sinceSend, enqueued, handled,
                   probe, card, tx>>

\* rx.recv().await returns Some(message) (line 169): the oldest item leaves
\* the channel.  The task notes how many seconds (capped at Delay) passed
\* since the previous item came out.
DispRecv ==
    /\ disp.pc = "recv"
    /\ queue # <<>>
    /\ disp' = [disp EXCEPT !.pc = "handle", !.id = Head(queue).id,
                            !.msg = Head(queue).msg, !.cards = 0, !.status = 0,
                            !.recvGap = IF disp.id = 0 THEN -1
                                        ELSE disp.sinceRecv,
                            !.sinceRecv = 0]
    /\ queue' = Tail(queue)
    /\ processed' = Append(processed, Head(queue))
    /\ UNCHANGED <<config, reqs, sends, sinceSend, enqueued, handled, probe, card, tx>>

DispHandleNoSleepOnMiss ==
    /\ disp.pc = "handle"
    /\ IF TriggerDetected(disp.msg, config)
       THEN /\ disp' = [disp EXCEPT !.pc = "sending", !.cards = @ + 1]
            /\ sends' = Append(sends, SendCall("dispatcher", disp.id))
            /\ sinceSend' = 0
            /\ UNCHANGED handled
       ELSE /\ disp' = [disp EXCEPT !.pc = "recv", !.status = StatusOK]
            /\ handled' = Append(handled, [id |-> disp.id, ok |-> TRUE,
                                           status |-> StatusOK])
            /\ UNCHANGED <<sends, sinceSend>>
    /\ UNCHANGED <<config, reqs, queue, enqueued, processed, probe, card, tx>>

\* handle_webhook lines 125-141, run by the task (line 170); when it returns
\* without sending (line 146), the task checks the result (lines 170-172) and
\* goes on to the sleep of line 175.
DispHandle ==
    /\ disp.pc = "handle"
    /\ IF TriggerDetected(disp.msg, config)
       THEN /\ disp' = [disp EXCEPT !.pc = "sending", !.cards = @ + 1]
            /\ sends' = Append(sends, SendCall("dispatcher", disp.id))
            /\ sinceSend' = 0
            /\ UNCHANGED handled
       ELSE LET res == HandleWebhookReturn(TRUE)
            IN  /\ disp' = [disp EXCEPT !.pc = "sleep", !.status = res.status,
                                        !.errors = IF res.ok THEN @ ELSE @ + 1,
                                        !.sleepLeft = Delay]
                /\ handled' = Append(handled, [id |-> disp.id, ok |-> res.ok,
                                               status |-> res.status])
                /\ UNCHANGED <<sends, sinceSend>>
    /\ UNCHANGED <<config, reqs, queue, enqueued, processed, probe, card, tx>>

DispSendDoneExitOnError(sendOk) ==
    /\ disp.pc = "sending"
    /\ disp' = [disp EXCEPT !.pc = IF sendOk THEN "sleep" ELSE "exited",
                            !.status = ReplyStatus(sendOk),
                            !.sleepLeft = Delay]
    /\ handled' = Append(handled, [id |-> disp.id, ok |-> TRUE,
                                   status |-> ReplyStatus(sendOk)])
    /\ UNCHANGED <<config, reqs, queue, sends, sinceSend, enqueued, processed,
                   probe, card, tx>>

\* client.send_text returns to the task and handle_webhook returns (lines
\* 141-146); the task logs an error if the result is Err (lines 170-172) and
\* starts the sleep of line 175.
DispSendDone(sendOk) ==
    /\ disp.pc = "sending"
    /\ LET res == HandleWebhookReturn(sendOk)
       IN  /\ disp' = [disp EXCEPT !.pc = "sleep", !.status = res.status,
                                   !.errors = IF res.ok THEN @ ELSE @ + 1,
                                   !.sleepLeft = Delay]
           /\ handled' = Append(handled, [id |-> disp.id, ok |-> res.ok,
                                          status |-> res.status])
    /\ UNCHANGED <<config, reqs, queue, sends, sinceSend, enqueued, processed,
                   probe, card, tx>>

\* The sleep of line 175 is over: back to rx.recv() (line 169).
DispWake ==
    /\ disp.pc = "sleep"
    /\ disp.sleepLeft = 0
    /\ disp' = [disp EXCEPT !.pc = "recv"]
    /\ UNCHANGED <<config, reqs, queue, sends, sinceSend, enqueued, processed,
                   handled, probe, card, tx>>

\* A producer sends a message on tx (the sender half created at line 163).
\* main itself never does; this is the enqueue of the Webhook Endpoint as the
\* specification describes it.
Enqueue(m) ==
    /\ ~tx.closed
    /\ Len(enqueued) < MaxEnq
    /\ Len(queue) < ChannelCapacity
    /\ queue' = Append(queue, [id |-> Len(enqueued) + 1, msg |-> m])
    /\ enqueued' = Append(enqueued, [id |-> Len(enqueued) + 1, msg |-> m])
    /\ UNCHANGED <<config, reqs, disp, sends, sinceSend, processed, handled,
                   probe, card, tx>>

\* tx.send(m).await with a free slot: the message is in the channel when the
\* call returns.  Senders are served in the order they called, so a new call
\* does not overtake one that is waiting.
Send(m) ==
    /\ ~tx.closed
    /\ Len(enqueued) + Len(tx.blocked) < MaxSend
    /\ tx.blocked = <<>>
    /\ Len(queue) < ChannelCapacity
    /\ queue' = Append(queue, [id |-> Len(enqueued) + 1, msg |-> m])
    /\ enqueued' = Append(enqueued, [id |-> Len(enqueued) + 1, msg |-> m])
    /\ UNCHANGED <<config, reqs, disp, sends, sinceSend, processed, handled,
                   probe, card, tx>>

\* tx.send(m).await with the channel full: the call is suspended, holding its
\* message.
SendBlocked(m) ==
    /\ ~tx.closed
    /\ Len(enqueued) + Len(tx.blocked) < MaxSend
    /\ Len(queue) >= ChannelCapacity
    /\ tx' = [tx EXCEPT !.blocked = Append(@, m)]
    /\ UNCHANGED <<config, reqs, queue, disp, sends, sinceSend, enqueued,
                   processed, handled, probe, card>>

\* A slot is free again: the send that has waited longest completes.
SendResume ==
    /\ tx.blocked # <<>>
    /\ Len(queue) < ChannelCapacity
    /\ queue' = Append(queue, [id |-> Len(enqueued) + 1,
                               msg |-> Head(tx.blocked)])
    /\ enqueued' = Append(enqueued, [id |-> Len(enqueued) + 1,
                                     msg |-> Head(tx.blocked)])
    /\ tx' = [tx EXCEPT !.blocked = Tail(@)]
    /\ UNCHANGED <<config, reqs, disp, sends, sinceSend, processed, handled,
                   probe, card>>

\* Every sender is dropped: the producer side of the channel is shut down.
\* main keeps tx until it returns, which it does not while warp serves.
Close ==
    /\ ~tx.closed
    /\ tx' = [tx EXCEPT !.closed = TRUE]
    /\ UNCHANGED <<config, reqs, queue, disp, sends, sinceSend, enqueued,
                   processed, handled, probe, card>>

DispExitWithoutDrain ==
    /\ disp.pc = "recv"
    /\ tx.closed
    /\ disp' = [disp EXCEPT !.pc = "exited"]
    /\ UNCHANGED <<config, reqs, queue, sends, sinceSend, enqueued, processed,
                   handled, probe, card, tx>>

\* rx.recv().await returns None (line 169), which it does when the channel
\* is closed and empty: the while let ends and with it the task (line 177).
DispExit ==
    /\ disp.pc = "recv"
    /\ queue = <<>>
    /\ tx.closed
    /\ disp' = [disp EXCEPT !.pc = "exited"]
    /\ UNCHANGED <<config, reqs, queue, sends, sinceSend, enqueued, processed,
                   handled, probe, card, tx>>

\* One second passes.
Tick ==
    /\ sinceSend' = IF sinceSend < Delay THEN sinceSend + 1 ELSE sinceSend
    /\ disp' = [disp EXCEPT !.sleepLeft = IF @ > 0 THEN @ - 1 ELSE 0,
                            !.sinceRecv = IF @ < Delay THEN @ + 1 ELSE @]
    /\ UNCHANGED <<config, reqs, queue, sends, enqueued, processed, handled,
                   probe, card, tx>>

(***************************************************************************)
(* The program as main wires it: the route serves requests, the task waits *)
(* on a channel nothing sends on.                                          *)
(***************************************************************************)
Init ==
    /\ config \in Configs
    /\ reqs = [r \in 1..MaxReq |-> IdleRequest]
    /\ queue = <<>>
    /\ disp = IdleTask
    /\ sends = <<>>
    /\ sinceSend = 0
    /\ enqueued = <<>>
    /\ processed = <<>>
    /\ handled = <<>>
    /\ probe = NoProbe
    /\ card = NoCard
    /\ tx = OpenSender

Next ==
    \/ \E r \in 1..MaxReq, body \in Bodies : HttpReceive(r, body)
    \/ \E r \in 1..MaxReq : HttpHandle(r)
    \/ \E r \in 1..MaxReq, sendOk \in BOOLEAN : HttpSendDone(r, sendOk)
    \/ Tick

Spec == Init /\ [][Next]_vars

(***************************************************************************)
(* The channel and the spawned task, with a producer on tx and no HTTP     *)
(* traffic.  The tokio runtime runs a task that is ready, and its timer    *)
(* fires: weak fairness of the task's steps and of the clock.  Nothing is  *)
(* assumed about client.send_text returning.                               *)
(***************************************************************************)
DispatcherNext ==
    \/ \E m \in Messages : Enqueue(m)
    \/ DispRecv
    \/ DispHandle
    \/ \E sendOk \in BOOLEAN : DispSendDone(sendOk)
    \/ DispWake
    \/ Tick

DispatcherSpec ==
    /\ Init
    /\ [][DispatcherNext]_vars
    /\ WF_vars(DispRecv)
    /\ WF_vars(DispHandle)
    /\ WF_vars(DispWake)
    /\ WF_vars(Tick)

(***************************************************************************)
(* The channel and the task with a producer that may also drop tx.         *)
(***************************************************************************)
ShutdownInit == Init /\ config.recipient_phone_number = "r1"

ShutdownNext ==
    \/ DispatcherNext
    \/ Close
    \/ DispExit

ShutdownSpec ==
    /\ ShutdownInit
    /\ [][ShutdownNext]_vars
    /\ WF_vars(DispRecv)
    /\ WF_vars(DispHandle)
    /\ WF_vars(DispWake)
    /\ WF_vars(DispExit)
    /\ WF_vars(Tick)

(***************************************************************************)
(* The channel filled to its capacity: a producer that sends one message   *)
(* over and over with tx.send(..).await, and the task.  The message has no *)
(* text and the trigger is not empty, so the task never calls send_text.   *)
(***************************************************************************)
BurstMessage == [from |-> "u1", text |-> None]

CapacityInit ==
    /\ Init
    /\ config.recipient_phone_number = "r1"
    /\ config.trigger_word = <<"b">>

CapacityNext ==
    \/ Send(BurstMessage)
    \/ SendBlocked(BurstMessage)
    \/ SendResume
    \/ DispRecv
    \/ DispHandle
    \/ DispWake
    \/ Tick

CapacitySpec == CapacityInit /\ [][CapacityNext]_vars

(***************************************************************************)
(* The trigger test on its own, for every text and trigger within bounds.  *)
(***************************************************************************)
MatchInit ==
    /\ config \in {[trigger_word |-> t,
                    recipient_phone_number |-> "r1",
                    whatsapp_phone_number_id |-> "w1"] :
                        t \in StringsUpTo(MaxTrigLen)}
    /\ probe \in {[state |-> "input",
                   message |-> [from |-> "u1", text |-> t],
                   result |-> FALSE] :
                       t \in {None} \cup {Some(s) : s \in StringsUpTo(MaxTextLen)}}
    /\ reqs = [r \in 1..MaxReq |-> IdleRequest]
    /\ queue = <<>>
    /\ disp = IdleTask
    /\ sends = <<>>
    /\ sinceSend = 0
    /\ enqueued = <<>>
    /\ processed = <<>>
    /\ handled = <<>>
    /\ card = NoCard
    /\ tx = OpenSender

\* Lines 127-130 applied to the probe's message under the loaded config.
Evaluate ==
    /\ probe.state = "input"
    /\ probe' = [probe EXCEPT !.state = "evaluated",
                              !.result = TriggerDetected(probe.message, config)]
    /\ UNCHANGED <<config, reqs, queue, disp, sends, sinceSend, enqueued,
                   processed, handled, card, tx>>

MatchNext == Evaluate

MatchSpec == MatchInit /\ [][MatchNext]_vars

(***************************************************************************)
(* generate_vcard on its own, for every contact within bounds and for the  *)
(* example contact, called twice on the same contact.                      *)
(***************************************************************************)
Contacts ==
    {ExampleContact} \cup
    {[first_name |-> f, last_name |-> l, phone_number |-> n] :
        f \in FieldsUpTo(MaxFieldLen), l \in FieldsUpTo(MaxFieldLen),
        n \in FieldsUpTo(MaxFieldLen)}

CardInit ==
    /\ card \in {[state |-> "input", contact |-> c, output |-> <<>>,
                   again |-> <<>>] : c \in Contacts}
    /\ config \in {c \in Configs : c.trigger_word = <<>>
                                    /\ c.recipient_phone_number = "r1"}
    /\ reqs = [r \in 1..MaxReq |-> IdleRequest]
    /\ queue = <<>>
    /\ disp = IdleTask
    /\ sends = <<>>
    /\ sinceSend = 0
    /\ enqueued = <<>>
    /\ processed = <<>>
    /\ handled = <<>>
    /\ probe = NoProbe
    /\ tx = OpenSender

\* let vcard = generate_vcard(&contact) (line 140).
Generate ==
    /\ card.state = "input"
    /\ card' = [card EXCEPT !.state = "generated",
                            !.output = generate_vcard(card.contact)]
    /\ UNCHANGED <<config, reqs, queue, disp, sends, sinceSend, enqueued,
                   processed, handled, probe, tx>>

\* A second call with the same contact.
GenerateAgain ==
    /\ card.state = "generated"
    /\ card' = [card EXCEPT !.state = "twice",
                            !.again = generate_vcard(card.contact)]
    /\ UNCHANGED <<config, reqs, queue, disp, sends, sinceSend, enqueued,
                   processed, handled, probe, tx>>

CardNext == Generate \/ GenerateAgain

CardSpec == CardInit /\ [][CardNext]_vars

(***************************************************************************)
(* Vocabulary of the claims.                                               *)
(***************************************************************************)
\* The request was deserialised into a WhatsAppMessage.
Parsed(r) == reqs[r].msg # NoMessage

\* n occurs in h as a contiguous block, comparing characters after mapping
\* each one to lower case.
IsLowercasedSubstring(h, n) ==
    \E off \in 0..(Len(h) - Len(n)) :
        \A j \in 1..Len(n) :
            to_lowercase_char(h[off + j]) = to_lowercase_char(n[j])

\* The text of a message matches the trigger phrase.
Matches(message, cfg) ==
    IsLowercasedSubstring(IF message.text = None THEN <<>> ELSE message.text[1],
                          cfg.trigger_word)

\* Every way of writing s with other letter casing.
RECURSIVE CaseVariants(_)
CaseVariants(s) ==
    IF s = <<>> THEN {<<>>}
    ELSE {<<c>> \o v :
            c \in {d \in Alphabet :
                      to_lowercase_char(d) = to_lowercase_char(Head(s))},
            v \in CaseVariants(Tail(s))}

\* send_text returned an error for item k of the channel.
SendFailedFor(k) ==
    \E i \in 1..Len(handled) :
        handled[i].id = k /\ handled[i].status = StatusInternalServerError

\* The task has dequeued item k and run the trigger test of handle_webhook
\* on it.
HandleWebhookRunOn(k) ==
    disp.id > k \/ (disp.id = k /\ disp.pc \in {"sending", "sleep", "recv"})

SendsInFlight ==
    Cardinality({r \in 1..MaxReq : reqs[r].pc = "sending"})
        + (IF disp.pc = "sending" THEN 1 ELSE 0)

(***************************************************************************)
(* C1.  Every send_text call is made by the background task while it       *)
(* processes an item it dequeued, never by the handler of POST /webhook.   *)
(* Violated: the route runs handle_webhook itself.                         *)
(***************************************************************************)
C1_SendsOnlyByDispatcher ==
    /\ \A i \in 1..Len(sends) :
          /\ sends[i].by = "dispatcher"
          /\ \E k \in 1..Len(processed) : processed[k].id = sends[i].id
    /\ \A r \in 1..MaxReq : reqs[r].pc # "sending"

(***************************************************************************)
(* C2.  Every request whose body parsed has had its message put on the     *)
(* channel by the time its response is returned.  Violated: nothing is     *)
(* ever sent on tx.                                                        *)
(***************************************************************************)
C2_ParsedRequestIsEnqueued ==
    \A r \in 1..MaxReq :
        (reqs[r].pc = "done" /\ Parsed(r)) =>
            \E i \in 1..Len(enqueued) : enqueued[i].msg = reqs[r].msg

(***************************************************************************)
(* C3.  Every request whose body parsed is answered 200, whatever the      *)
(* trigger test and the send did.  Violated: a failed send is answered     *)
(* 500.                                                                    *)
(***************************************************************************)
C3_ParsedRequestAnswered200 ==
    \A r \in 1..MaxReq :
        (reqs[r].pc = "done" /\ Parsed(r)) => reqs[r].status = StatusOK

(***************************************************************************)
(* C4.  Any two consecutive send_text calls are at least Delay apart.      *)
(* Violated: two requests served by the route send back to back.           *)
(***************************************************************************)
C4_SendsAtLeastDelayApart ==
    \A i \in 1..Len(sends) : sends[i].gap = -1 \/ sends[i].gap >= Delay

(***************************************************************************)
(* C5.  At most one send_text call is in flight at any time.  Violated:    *)
(* two requests served concurrently both await send_text.                  *)
(***************************************************************************)
C5_AtMostOneSendInFlight == SendsInFlight <= 1

(***************************************************************************)
(* C6.  The items the task has dequeued are, in order, the first items     *)
(* that were enqueued.                                                     *)
(***************************************************************************)
C6_ProcessedIsPrefixOfEnqueued ==
    /\ Len(processed) <= Len(enqueued)
    /\ processed = SubSeq(enqueued, 1, Len(processed))

C6_Witness ==
    /\ Len(processed) >= 2
    /\ processed[1].msg # processed[2].msg
    /\ queue # <<>>

(***************************************************************************)
(* C7.  After send_text failed for the item the task dequeued, the task    *)
(* goes on: if a further item was enqueued, it is eventually dequeued and  *)
(* handle_webhook is run on it.                                            *)
(***************************************************************************)
C7_FailureDoesNotStopLoop ==
    \A k \in 1..MaxEnq :
        (SendFailedFor(k) /\ Len(enqueued) > k) ~> HandleWebhookRunOn(k + 1)

C7_Witness ==
    \E k \in 1..MaxEnq :
        /\ SendFailedFor(k)
        /\ disp.id = k + 1
        /\ disp.pc \in {"sending", "sleep"}

(***************************************************************************)
(* C8.  A request whose text matches the trigger produces exactly one card *)
(* and one send, a request whose text does not match produces none: the    *)
(* number of sends is the number of matching messages handled.             *)
(***************************************************************************)
C8_OneCardPerMatchingMessage ==
    /\ \A r \in 1..MaxReq :
          /\ reqs[r].pc \in {"idle", "handle"} => reqs[r].cards = 0
          /\ (reqs[r].pc \in {"sending", "done"} /\ Parsed(r)) =>
                reqs[r].cards = IF Matches(reqs[r].msg, config) THEN 1 ELSE 0
          /\ (reqs[r].pc = "done" /\ ~Parsed(r)) => reqs[r].cards = 0
    /\ Len(sends) =
          Cardinality({r \in 1..MaxReq :
                          /\ reqs[r].pc \in {"sending", "done"}
                          /\ Parsed(r)
                          /\ Matches(reqs[r].msg, config)})

C8_Witness ==
    \E r1, r2 \in 1..MaxReq :
        /\ reqs[r1].pc = "done" /\ reqs[r1].cards = 1
        /\ reqs[r2].pc = "done" /\ Parsed(r2) /\ reqs[r2].cards = 0
        /\ reqs[r2].msg.text # None
        /\ Len(sends) = 1

(***************************************************************************)
(* C9.  Every enqueued item is dequeued at most once and never lost: it is *)
(* either still in the channel or was dequeued, once; and handle_webhook   *)
(* has returned exactly once for every dequeued item that is no longer     *)
(* being handled.                                                          *)
(***************************************************************************)
C9_ConsumedExactlyOnce ==
    /\ processed \o queue = enqueued
    /\ \A k \in 1..Len(enqueued) :
          Cardinality({i \in 1..Len(handled) : handled[i].id = k}) =
              IF /\ k <= Len(processed)
                 /\ ~(disp.id = k /\ disp.pc \in {"handle", "sending"})
              THEN 1 ELSE 0

C9_Witness ==
    /\ Len(enqueued) = MaxEnq
    /\ Len(handled) = MaxEnq
    /\ queue = <<>>

(***************************************************************************)
(* C10.  The trigger test is true exactly when the lower-cased trigger is  *)
(* a contiguous substring of the lower-cased text; the result is the same  *)
(* for every other casing of the text and of the trigger; an empty trigger *)
(* matches every text.                                                     *)
(***************************************************************************)
C10_TriggerIffLowercasedSubstring ==
    probe.state = "evaluated" =>
        /\ probe.result = Matches(probe.message, config)
        /\ \A g \in CaseVariants(config.trigger_word) :
              /\ TriggerDetected(probe.message,
                                 [config EXCEPT !.trigger_word = g])
                    = probe.result
              /\ probe.message.text # None =>
                    \A t \in CaseVariants(probe.message.text[1]) :
                        TriggerDetected(
                            [probe.message EXCEPT !.text = Some(t)],
                            [config EXCEPT !.trigger_word = g]) = probe.result
        /\ config.trigger_word = <<>> => probe.result

\* A match in the middle of the text (letters on both sides of it), found
\* although text and trigger differ in casing.
C10_Witness ==
    /\ probe.state = "evaluated"
    /\ probe.result
    /\ probe.message.text = Some(<<"b", "A", "b">>)
    /\ config.trigger_word = <<"a">>

(***************************************************************************)
(* C11.  A message whose text is null or absent is handled as one whose    *)
(* text is empty: under a non-empty trigger it does not match, no card is  *)
(* built and no send is made for it, and it is answered "Message           *)
(* processed" (200).                                                       *)
(***************************************************************************)
SendsFor(by, id) ==
    {i \in 1..Len(sends) : sends[i].by = by /\ sends[i].id = id}

C11_NullTextIsEmptyText ==
    \A r \in 1..MaxReq :
        (Parsed(r) /\ reqs[r].msg.text = None) =>
            /\ TriggerDetected(reqs[r].msg, config)
                  = TriggerDetected([reqs[r].msg EXCEPT !.text = Some(<<>>)],
                                    config)
            /\ config.trigger_word # <<>> =>
                  /\ reqs[r].pc \in {"handle", "done"}
                  /\ reqs[r].cards = 0
                  /\ SendsFor("http", r) = {}
                  /\ reqs[r].pc = "done" => reqs[r].status = StatusOK

C11_Witness ==
    \E r \in 1..MaxReq :
        /\ Parsed(r)
        /\ reqs[r].msg.text = None
        /\ config.trigger_word = <<"b">>
        /\ reqs[r].pc = "done"
        /\ sends # <<>>

(***************************************************************************)
(* C13.  A request whose body does not deserialise into a WhatsAppMessage  *)
(* is answered with a 4xx status and has no other effect: the trigger test *)
(* is not run for it, no card is built, no send is made and nothing is put *)
(* on the channel.                                                         *)
(***************************************************************************)
C13_MalformedBodyRejected ==
    \A r \in 1..MaxReq :
        (reqs[r].pc # "idle" /\ ~Parsed(r)) =>
            /\ reqs[r].pc = "done"
            /\ reqs[r].status \in 400..499
            /\ reqs[r].cards = 0
            /\ SendsFor("http", r) = {}
            /\ \A i \in 1..Len(enqueued) : enqueued[i].msg # reqs[r].msg

C13_Witness ==
    \E r1, r2 \in 1..MaxReq :
        /\ reqs[r1].pc = "done" /\ ~Parsed(r1)
        /\ reqs[r1].status = StatusBadRequest
        /\ config.trigger_word = <<>>
        /\ reqs[r2].pc = "done" /\ Parsed(r2) /\ reqs[r2].cards = 1

(***************************************************************************)
(* C16.  No send is retried: at most one send_text call is made for a      *)
(* message, and exactly one has been made for a message whose send was     *)
(* answered, whether it succeeded (200) or failed (500).                   *)
(***************************************************************************)
C16_AtMostOneSendPerMessage ==
    \A r \in 1..MaxReq :
        /\ Cardinality(SendsFor("http", r)) <= 1
        /\ Cardinality(SendsFor("http", r)) = reqs[r].cards
        /\ (reqs[r].pc = "done" /\ reqs[r].status = StatusInternalServerError)
              => Cardinality(SendsFor("http", r)) = 1

C16_Witness ==
    \E r1, r2 \in 1..MaxReq :
        /\ reqs[r1].pc = "done"
        /\ reqs[r1].status = StatusInternalServerError
        /\ reqs[r2].pc = "done"
        /\ reqs[r2].status = StatusOK
        /\ Len(sends) = 2

(***************************************************************************)
(* C17.  Every send_text request is addressed to the recipient of the      *)
(* loaded configuration and carries its channel identity as the sender,    *)
(* whoever sent the inbound message; and no step changes the loaded        *)
(* configuration.                                                          *)
(***************************************************************************)
C17_SendsUseLoadedConfig ==
    /\ [](\A i \in 1..Len(sends) :
            /\ sends[i].request.to = config.recipient_phone_number
            /\ sends[i].request.from = config.whatsapp_phone_number_id)
    /\ [][config' = config]_vars

C17_Witness ==
    \E i \in 1..Len(sends) :
        /\ sends[i].by = "http"
        /\ reqs[sends[i].id].msg.from # sends[i].request.to
        /\ sends[i].request.to = "r2"
        /\ reqs[sends[i].id].pc = "done"

(***************************************************************************)
(* C18.  The task waits the fixed interval after every item it dequeues,   *)
(* whether the trigger matched and whether the send succeeded: two         *)
(* consecutive dequeues are at least Delay apart, the task leaves          *)
(* rx.recv() only by dequeuing an item, every run of handle_webhook ends   *)
(* in a sleep of Delay, and the task returns to rx.recv() only from a      *)
(* sleep that has elapsed.                                                 *)
(***************************************************************************)
C18_SleepAfterEveryItem ==
    /\ [](disp.recvGap = -1 \/ disp.recvGap >= Delay)
    /\ [][/\ (disp.pc = "recv" /\ disp'.pc # "recv") =>
                (disp'.pc = "handle" /\ queue # <<>> /\ queue' = Tail(queue))
          /\ (disp.pc \in {"handle", "sending"}
                /\ disp'.pc \notin {"handle", "sending"}) =>
                (disp'.pc = "sleep" /\ disp'.sleepLeft = Delay)
          /\ (disp.pc # "recv" /\ disp'.pc = "recv") =>
                (disp.pc = "sleep" /\ disp.sleepLeft = 0)]_vars

\* Three items went through: one without a match, one whose send failed, and
\* a third dequeued after both.
C18_Witness ==
    /\ Len(processed) = 3
    /\ \E i, j \in 1..Len(handled) :
          /\ handled[i].status = StatusInternalServerError
          /\ handled[j].status = StatusOK
          /\ Cardinality(SendsFor("dispatcher", handled[j].id)) = 0
    /\ disp.recvGap = Delay

(***************************************************************************)
(* C19.  handle_webhook never returns Err: whatever the message, the       *)
(* trigger test and the send did, the task gets Ok(reply), never logs      *)
(* "Error processing webhook", and is in its sleep after a failed send.    *)
(***************************************************************************)
C19_HandleWebhookNeverErr ==
    /\ disp.errors = 0
    /\ \A i \in 1..Len(handled) :
          /\ handled[i].ok
          /\ handled[i].status \in {StatusOK, StatusInternalServerError}
    /\ disp.pc \in {"recv", "handle", "sending", "sleep"}

C19_Witness ==
    /\ disp.pc = "sleep"
    /\ disp.status = StatusInternalServerError
    /\ \E i \in 1..Len(handled) : handled[i].status = StatusOK

(***************************************************************************)
(* C12.  generate_vcard returns the five lines BEGIN:VCARD, VERSION:3.0,   *)
(* N:<last_name>;<first_name>, TEL;TYPE=CELL:<phone_number>, END:VCARD     *)
(* joined by newlines, with every field inserted as it is (also when it    *)
(* holds ";" or a newline); a second call on the same contact returns the  *)
(* same card; for John / Doe / 1234567890 it is the block of the           *)
(* specification.                                                          *)
(***************************************************************************)
RECURSIVE JoinLines(_)
JoinLines(lines) ==
    IF Len(lines) = 1 THEN lines[1]
    ELSE lines[1] \o <<"\n">> \o JoinLines(Tail(lines))

CardLines(c) ==
    << <<"BEGIN:VCARD">>,
       <<"VERSION:3.0">>,
       <<"N:">> \o c.last_name \o <<";">> \o c.first_name,
       <<"TEL;TYPE=CELL:">> \o c.phone_number,
       <<"END:VCARD">> >>

C12_CardIsFixedBlock ==
    /\ card.state \in {"generated", "twice"} =>
          /\ card.output = JoinLines(CardLines(card.contact))
          /\ Len(card.output) = 10 + Len(card.contact.last_name)
                                   + Len(card.contact.first_name)
                                   + Len(card.contact.phone_number)
          /\ card.contact = ExampleContact =>
                card.output = <<"BEGIN:VCARD", "\n", "VERSION:3.0", "\n",
                                "N:", "Doe", ";", "John", "\n",
                                "TEL;TYPE=CELL:", "1234567890", "\n",
                                "END:VCARD">>
    /\ card.state = "twice" => card.again = card.output

C12_Witness ==
    /\ card.state = "twice"
    /\ card.contact.last_name = <<";", "D">>
    /\ card.contact.first_name = <<"\n">>
    /\ card.contact.phone_number = <<"D">>
    /\ card.output = <<"BEGIN:VCARD", "\n", "VERSION:3.0", "\n",
                       "N:", ";", "D", ";", "\n", "\n",
                       "TEL;TYPE=CELL:", "D", "\n", "END:VCARD">>

(***************************************************************************)
(* C15.  The task ends only on closure of the channel: when it has ended,  *)
(* the producer side is shut down, the channel is empty and every item     *)
(* that was enqueued has been dequeued, in order, and handled; while the   *)
(* producer side is open it has not ended.  Once the producer side is shut *)
(* down the task does end, unless a send_text call never returns.          *)
(***************************************************************************)
C15_ExitOnlyOnClosureAfterDrain ==
    /\ [](disp.pc = "exited" =>
            /\ tx.closed
            /\ queue = <<>>
            /\ processed = enqueued
            /\ Len(handled) = Len(enqueued))
    /\ [](tx.closed => (<>(disp.pc = "exited") \/ <>[](disp.pc = "sending")))

C15_Witness ==
    /\ disp.pc = "exited"
    /\ Len(enqueued) = MaxEnq
    /\ \E i \in 1..Len(processed) :
          /\ processed[i].id = MaxEnq
          /\ Cardinality(SendsFor("dispatcher", MaxEnq)) = 1

(***************************************************************************)
(* C14.  The channel never holds more than 100 messages; while it holds    *)
(* 100, no enqueue completes, and a send that found it full stays          *)
(* suspended with its message until the task has dequeued an item; the     *)
(* message of a suspended send is then enqueued, not dropped.              *)
(***************************************************************************)
C14_BoundedQueueBlocksWhenFull ==
    /\ [](Len(queue) <= 100)
    /\ [][/\ Len(queue) = 100 => enqueued' = enqueued
          /\ (Len(queue) = 100 /\ tx.blocked # <<>>) =>
                (/\ \E k \in 1..Len(tx'.blocked) :
                        SubSeq(tx'.blocked, 1, k) = tx.blocked
                 /\ Len(queue') < 100 => processed' # processed)
          /\ (tx.blocked # <<>> /\ tx'.blocked # tx.blocked
                /\ Len(tx'.blocked) <= Len(tx.blocked)) =>
                (/\ tx'.blocked = Tail(tx.blocked)
                 /\ Len(enqueued') = Len(enqueued) + 1
                 /\ enqueued'[Len(enqueued')].msg = Head(tx.blocked)
                 /\ queue' = Append(queue, enqueued'[Len(enqueued')]))]_vars

\* A send was suspended on the full channel, completed after the task had
\* dequeued an item, and the next send is suspended in turn.
C14_Witness ==
    /\ Len(enqueued) = 101
    /\ Len(processed) = 1
    /\ Len(queue) = 100
    /\ tx.blocked # <<>>

====
